---- MODULE Spec2Model ----
(***************************************************************************)
(* State-machine model of LicenseGenerator (src/mkg.py): the record        *)
(* formatter, the running-key XOR cipher and the variant Base64 encoder,   *)
(* executed step by step in the frames of one or two callers, and of        *)
(* MobaXtermGeneratorApp: its fields and the handlers of its buttons.      *)
(*                                                                         *)
(* Text is modelled as a sequence of Unicode code points, bytes as a       *)
(* sequence of integers 0..255.                                            *)
(***************************************************************************)
EXTENDS Integers, Sequences, FiniteSets, TLC

\* ------------------------------------------------------------------ bounds
\* Calls the sequential caller makes in one behaviour (Spec).
MaxCalls == 3
\* Longest byte sequence over ThinBytes handed to the cipher or the encoder.
MaxLen == 7
\* Longest byte sequence over RichBytes handed to the cipher or the encoder.
MaxRichLen == 4
\* Field edits in one run of the application.
MaxEdits == 2

\* --------------------------------------------------------- integer helpers
\* Python's >> and << on non-negative integers.
Shr(x, n) == x \div (2 ^ n)
Shl(x, n) == x * (2 ^ n)

\* Python's &, | and ^ on non-negative integers of any width.
RECURSIVE BitAnd(_, _)
BitAnd(x, y) ==
    IF x = 0 \/ y = 0 THEN 0
    ELSE (IF x % 2 = 1 /\ y % 2 = 1 THEN 1 ELSE 0) + 2 * BitAnd(x \div 2, y \div 2)

RECURSIVE BitOr(_, _)
BitOr(x, y) ==
    IF x = 0 THEN y
    ELSE IF y = 0 THEN x
    ELSE (IF x % 2 = 1 \/ y % 2 = 1 THEN 1 ELSE 0) + 2 * BitOr(x \div 2, y \div 2)

RECURSIVE BitXor(_, _)
BitXor(x, y) ==
    IF x = 0 THEN y
    ELSE IF y = 0 THEN x
    ELSE (IF x % 2 # y % 2 THEN 1 ELSE 0) + 2 * BitXor(x \div 2, y \div 2)

\* ------------------------------------------------------------ text helpers
\* str(n) of a Python int, as the code points of its characters.
RECURSIVE StrNat(_)
StrNat(n) == IF n < 10 THEN <<48 + n>> ELSE Append(StrNat(n \div 10), 48 + (n % 10))

Str(n) == IF n < 0 THEN <<45>> \o StrNat(0 - n) ELSE StrNat(n)

\* The UTF-8 bytes of one code point (surrogates excluded by the input sets).
Utf8Char(cp) ==
    IF cp < 128 THEN <<cp>>
    ELSE IF cp < 2048 THEN <<192 + (cp \div 64), 128 + (cp % 64)>>
    ELSE IF cp < 65536 THEN
        <<224 + (cp \div 4096), 128 + ((cp \div 64) % 64), 128 + (cp % 64)>>
    ELSE <<240 + (cp \div 262144), 128 + ((cp \div 4096) % 64),
           128 + ((cp \div 64) % 64), 128 + (cp % 64)>>

\* str.encode('utf-8')
RECURSIVE Utf8Encode(_)
Utf8Encode(s) == IF s = <<>> THEN <<>> ELSE Utf8Char(Head(s)) \o Utf8Encode(Tail(s))

\* str.encode('ascii') / bytes.decode('ascii'): defined on codes below 128 only.
IsAscii(s) == \A i \in 1..Len(s) : s[i] < 128
AsciiEncode(s) == [i \in 1..Len(s) |-> s[i] % 128]
AsciiDecode(b) == [i \in 1..Len(b) |-> b[i] % 128]

\* bytes(list): defined when every element is in 0..255.
IsByteList(l) == \A i \in 1..Len(l) : l[i] \in 0..255

\* ------------------------------------------------------- class attributes
\* 'ABCDEFGHIJKLMNOPQRSTUVWXYZabcdefghijklmnopqrstuvwxyz0123456789+/='
VARIANT_BASE64_TABLE ==
    [i \in 1..26 |-> 64 + i] \o [i \in 1..26 |-> 96 + i] \o
    [i \in 1..10 |-> 47 + i] \o <<43, 47, 61>>

\* _get_base64_dict(): {i: table[i]} for i in range(len(table))
get_base64_dict == [i \in 0..(Len(VARIANT_BASE64_TABLE) - 1) |-> VARIANT_BASE64_TABLE[i + 1]]

LICENSE_TYPES == [Professional |-> 1, Educational |-> 3, Personal |-> 4]

\* The key generate hands to _encrypt_bytes: 0x787.
InitialKey == 1927

\* The constant ORed into the key register: 0x482D.
KeyOrMask == 18477

\* ------------------------------------------------- the code's expressions
\* Mutant: a lookup with a default (LICENSE_TYPES.get(license_type, 0)).
LookupLicenseTypeDefault(license_type) ==
    [raised |-> FALSE,
     value |-> IF license_type \in DOMAIN LICENSE_TYPES THEN LICENSE_TYPES[license_type] ELSE 0]

\* Line 84: LICENSE_TYPES[license_type]; a missing key raises KeyError.
LookupLicenseType(license_type) ==
    IF license_type \in DOMAIN LICENSE_TYPES
    THEN [raised |-> FALSE, value |-> LICENSE_TYPES[license_type]]
    ELSE [raised |-> TRUE, value |-> 0]

\* Mutant: the record without its closing '#'.
FormatLicenseStrOpenEnd(license_type_code, username, user_count, major_version, minor_version) ==
    Str(license_type_code) \o <<35>> \o username \o <<124>> \o
    Str(major_version) \o Str(minor_version) \o <<35>> \o
    Str(user_count) \o <<35>> \o
    Str(major_version) \o <<51>> \o Str(minor_version) \o <<54>> \o Str(minor_version) \o
    <<35, 48, 35, 48, 35, 48>>

\* Mutant: the last field of the interleave takes major instead of minor.
FormatLicenseStrMajorLast(license_type_code, username, user_count, major_version, minor_version) ==
    Str(license_type_code) \o <<35>> \o username \o <<124>> \o
    Str(major_version) \o Str(minor_version) \o <<35>> \o
    Str(user_count) \o <<35>> \o
    Str(major_version) \o <<51>> \o Str(minor_version) \o <<54>> \o Str(major_version) \o
    <<35, 48, 35, 48, 35, 48, 35>>

\* Line 85: the f-string that builds license_str.
FormatLicenseStr(license_type_code, username, user_count, major_version, minor_version) ==
    Str(license_type_code) \o <<35>> \o username \o <<124>> \o
    Str(major_version) \o Str(minor_version) \o <<35>> \o
    Str(user_count) \o <<35>> \o
    Str(major_version) \o <<51>> \o Str(minor_version) \o <<54>> \o Str(minor_version) \o
    <<35, 48, 35, 48, 35, 48, 35>>

\* Mutant: the key byte ORed into the plaintext byte instead of XORed.
EncryptedByteOr(k, b) == BitOr(b, BitAnd(Shr(k, 8), 255))

\* Line 70: encrypted = b ^ ((key >> 8) & 0xff)
EncryptedByte(k, b) == BitXor(b, BitAnd(Shr(k, 8), 255))

\* Mutant: the emitted byte ORed into the key instead of ANDed.
NextKeyOrOr(k, encrypted) == BitOr(BitOr(encrypted, k), KeyOrMask)

\* Mutant: & and | exchanged in the key update.
NextKeyOrAnd(k, encrypted) == BitAnd(BitOr(encrypted, k), KeyOrMask)

\* Line 72: key = (encrypted & key) | 0x482D
NextKey(k, encrypted) == BitOr(BitAnd(encrypted, k), KeyOrMask)

\* Lines 37-38
BlocksCount(b) == Len(b) \div 3
LeftBytes(b) == Len(b) % 3

\* Mutant: the table read one place too far.
Base64SymbolShifted(i) == get_base64_dict[i + 1]

\* base64_dict[i]
Base64Symbol(i) == get_base64_dict[i]

\* Line 41: bs[3*i] | (bs[3*i+1] << 8) | (bs[3*i+2] << 16), on 0-based index i
CodingInt3(b, i) == BitOr(BitOr(b[3 * i + 1], Shl(b[3 * i + 2], 8)), Shl(b[3 * i + 3], 16))

\* Mutant: the four symbols in canonical Base64 (most significant first) order.
Block4BigEndian(coding_int) ==
    AsciiEncode(<<Base64Symbol(BitAnd(Shr(coding_int, 18), 63)),
                  Base64Symbol(BitAnd(Shr(coding_int, 12), 63)),
                  Base64Symbol(BitAnd(Shr(coding_int, 6), 63)),
                  Base64Symbol(BitAnd(coding_int, 63))>>)

\* Lines 42-48: the four symbols of a full block
Block4(coding_int) ==
    AsciiEncode(<<Base64Symbol(BitAnd(coding_int, 63)),
                  Base64Symbol(BitAnd(Shr(coding_int, 6), 63)),
                  Base64Symbol(BitAnd(Shr(coding_int, 12), 63)),
                  Base64Symbol(BitAnd(Shr(coding_int, 18), 63))>>)

\* Mutant: a one-byte tail padded to four symbols with '=' as canonical Base64 does.
TailBlock1Padded(b) ==
    LET coding_int == b[3 * BlocksCount(b) + 1]
    IN  AsciiEncode(<<Base64Symbol(BitAnd(coding_int, 63)),
                      Base64Symbol(BitAnd(Shr(coding_int, 6), 63)),
                      Base64Symbol(64), Base64Symbol(64)>>)

\* Lines 51-53: one byte left
TailBlock1(b) ==
    LET coding_int == b[3 * BlocksCount(b) + 1]
    IN  AsciiEncode(<<Base64Symbol(BitAnd(coding_int, 63)),
                      Base64Symbol(BitAnd(Shr(coding_int, 6), 63))>>)

\* Lines 55-61: two bytes left
TailBlock2(b) ==
    LET coding_int == BitOr(b[3 * BlocksCount(b) + 1], Shl(b[3 * BlocksCount(b) + 2], 8))
    IN  AsciiEncode(<<Base64Symbol(BitAnd(coding_int, 63)),
                      Base64Symbol(BitAnd(Shr(coding_int, 6), 63)),
                      Base64Symbol(BitAnd(Shr(coding_int, 12), 63))>>)

\* Lines 50-61: what the tail handling appends
TailBlock(b) ==
    IF LeftBytes(b) = 1 THEN TailBlock1(b)
    ELSE IF LeftBytes(b) = 2 THEN TailBlock2(b)
    ELSE <<>>

\* ------------------------------------------------------------------- state
Callers == {1, 2}

\* A name that is not bound in a frame.
Unbound == <<>>
NoArgs == [license_type |-> "", username |-> <<>>, user_count |-> 0,
           major_version |-> 0, minor_version |-> 0]

VARIABLES
    pc,                 \* per caller: the line its call stands at, or "idle"
    entry,              \* per caller: the function the caller invoked
    calls,              \* per caller: calls made so far
    args,               \* generate: the five arguments
    license_type_code,  \* generate: local
    license_str,        \* generate: local
    bs,                 \* generate: local
    encrypted_bs,       \* generate: local
    encoded,            \* generate: local
    key,                \* _encrypt_bytes: the key register, by cell
    e_bs,               \* _encrypt_bytes: parameter bs
    e_result,           \* _encrypt_bytes: local result
    e_i,                \* _encrypt_bytes: bytes of bs consumed by the for loop
    v_bs,               \* _variant_base64_encode: parameter bs
    v_result,           \* _variant_base64_encode: local result
    v_i,                \* _variant_base64_encode: loop variable i
    ret,                \* per caller: value the last call returned
    outcome,            \* per caller: "none", "returned" or "raised"
    log                 \* generate's calls, returns and raises, in order

\* ------------------------------------------- MobaXtermGeneratorApp's state
VARIABLES
    app_pc,                 \* "idle", or "gk575": generate_key stands after line 573
    username_field,         \* username_field.value
    license_type_dropdown,  \* license_type_dropdown.value
    version_field,          \* version_field.value
    user_count_field,       \* user_count_field.value
    generated_key,          \* self.generated_key
    key_display,            \* key_display.value
    generate_btn_disabled,  \* generate_btn.disabled
    file_info_text,         \* which text file_info_text shows
    status,                 \* which message update_status showed last
    snack,                  \* which message show_snackbar showed last
    errors,                 \* the errors of validate_fields the snackbar lists
    disk,                   \* the file named license_file
    save_result,            \* what save_to_file returned to the last handler
    last_call,              \* the call the last handler made to generate,
                            \* set_clipboard or save_to_file, if it made one
    last_ok,                \* the key the last generate that returned gave
    edits                   \* how many times the user changed a field

appVars == <<app_pc, username_field, license_type_dropdown, version_field,
             user_count_field, generated_key, key_display, generate_btn_disabled,
             file_info_text, status, snack, errors, disk, save_result, last_call,
             last_ok, edits>>

\* None, and a str, where an attribute holds one or the other.
None == [none |-> TRUE, str |-> <<>>]
StrValue(s) == [none |-> FALSE, str |-> s]

\* not x, for x that is None or a str.
Falsy(x) == x.none \/ x.str = <<>>

\* Line 117
license_file == "MobaXterm_License.mxtpro"

\* No file of that name.
NoFile == [state |-> "absent", entries |-> <<>>]

\* No call made yet.
NoCall == [fn |-> "none", args |-> NoArgs, key |-> <<>>]
NoResult == [attempts |-> 0, raised |-> FALSE, success |-> FALSE, message |-> "", disk |-> NoFile]

\* Lines 113-121 with init_components (lines 247-285, 302-308, 337-341): the
\* fields as the window first shows them.
AppInit ==
    /\ app_pc = "idle"
    /\ username_field = <<66, 114, 111, 86, 110, 97, 116, 117, 114, 101>>
    /\ license_type_dropdown = "Professional"
    /\ version_field = <<50, 53, 46, 52>>
    /\ user_count_field = <<57, 57>>
    /\ generated_key = None
    /\ key_display = <<>>
    /\ generate_btn_disabled = FALSE
    /\ file_info_text = "not_created"
    /\ status = "initial"
    /\ snack = "none"
    /\ errors = <<>>
    /\ disk = NoFile
    /\ save_result = NoResult
    /\ last_call = NoCall
    /\ last_ok = None
    /\ edits = 0

genFrame == <<args, license_type_code, license_str, bs, encrypted_bs, encoded>>
encFrame == <<key, e_bs, e_result, e_i>>
varFrame == <<v_bs, v_result, v_i>>
coreVars == <<pc, entry, calls, args, license_type_code, license_str, bs, encrypted_bs,
              encoded, key, e_bs, e_result, e_i, v_bs, v_result, v_i, ret, outcome, log>>
vars == <<coreVars, appVars>>

\* Mutant: one key register shared by every call (a class attribute).
KeyCellShared(c) == 1

\* The cell that holds caller c's key register: key is a parameter of
\* _encrypt_bytes, so every call has its own.
KeyCell(c) == c

Init ==
    /\ pc = [c \in Callers |-> "idle"]
    /\ entry = [c \in Callers |-> "none"]
    /\ calls = [c \in Callers |-> 0]
    /\ args = [c \in Callers |-> NoArgs]
    /\ license_type_code = [c \in Callers |-> 0]
    /\ license_str = [c \in Callers |-> Unbound]
    /\ bs = [c \in Callers |-> Unbound]
    /\ encrypted_bs = [c \in Callers |-> Unbound]
    /\ encoded = [c \in Callers |-> Unbound]
    /\ key = [c \in Callers |-> 0]
    /\ e_bs = [c \in Callers |-> Unbound]
    /\ e_result = [c \in Callers |-> Unbound]
    /\ e_i = [c \in Callers |-> 0]
    /\ v_bs = [c \in Callers |-> Unbound]
    /\ v_result = [c \in Callers |-> Unbound]
    /\ v_i = [c \in Callers |-> 0]
    /\ ret = [c \in Callers |-> Unbound]
    /\ outcome = [c \in Callers |-> "none"]
    /\ log = <<>>
    /\ AppInit

\* ---------------------------------------------------------------- generate
\* A caller invokes generate(license_type, username, user_count, major, minor).
CallGenerate(c, a, limit) ==
    /\ pc[c] = "idle"
    /\ calls[c] < limit
    /\ pc' = [pc EXCEPT ![c] = "g84"]
    /\ entry' = [entry EXCEPT ![c] = "generate"]
    /\ calls' = [calls EXCEPT ![c] = @ + 1]
    /\ args' = [args EXCEPT ![c] = a]
    /\ ret' = [ret EXCEPT ![c] = Unbound]
    /\ outcome' = [outcome EXCEPT ![c] = "none"]
    /\ log' = Append(log, [ev |-> "call", caller |-> c, args |-> a, result |-> <<>>])
    /\ UNCHANGED <<appVars, license_type_code, license_str, bs, encrypted_bs, encoded,
                   encFrame, varFrame>>

\* Line 84, key present: license_type_code is bound.
GenLookup(c) ==
    /\ pc[c] = "g84"
    /\ ~LookupLicenseType(args[c].license_type).raised
    /\ license_type_code' =
           [license_type_code EXCEPT ![c] = LookupLicenseType(args[c].license_type).value]
    /\ pc' = [pc EXCEPT ![c] = "g85"]
    /\ UNCHANGED <<appVars, entry, calls, args, license_str, bs, encrypted_bs, encoded,
                   encFrame, varFrame, ret, outcome, log>>

\* Line 84, key missing: KeyError leaves generate; the frame is dropped.
GenLookupRaise(c) ==
    /\ pc[c] = "g84"
    /\ LookupLicenseType(args[c].license_type).raised
    /\ pc' = [pc EXCEPT ![c] = "idle"]
    /\ outcome' = [outcome EXCEPT ![c] = "raised"]
    /\ log' = Append(log, [ev |-> "raise", caller |-> c, args |-> args[c], result |-> <<>>])
    /\ UNCHANGED <<appVars, entry, calls, genFrame, encFrame, varFrame, ret>>

\* Line 85
GenFormat(c) ==
    /\ pc[c] = "g85"
    /\ license_str' = [license_str EXCEPT ![c] =
           FormatLicenseStr(license_type_code[c], args[c].username, args[c].user_count,
                            args[c].major_version, args[c].minor_version)]
    /\ pc' = [pc EXCEPT ![c] = "g87"]
    /\ UNCHANGED <<appVars, entry, calls, args, license_type_code, bs, encrypted_bs, encoded,
                   encFrame, varFrame, ret, outcome, log>>

\* Line 87
GenEncodeUtf8(c) ==
    /\ pc[c] = "g87"
    /\ bs' = [bs EXCEPT ![c] = Utf8Encode(license_str[c])]
    /\ pc' = [pc EXCEPT ![c] = "g88"]
    /\ UNCHANGED <<appVars, entry, calls, args, license_type_code, license_str, encrypted_bs,
                   encoded, encFrame, varFrame, ret, outcome, log>>

\* Mutant: the key register is not set again when the cipher is entered.
GenCallEncryptKeepKey(c) ==
    /\ pc[c] = "g88"
    /\ e_bs' = [e_bs EXCEPT ![c] = bs[c]]
    /\ e_result' = [e_result EXCEPT ![c] = <<>>]
    /\ e_i' = [e_i EXCEPT ![c] = 0]
    /\ pc' = [pc EXCEPT ![c] = "e69"]
    /\ UNCHANGED <<appVars, entry, calls, genFrame, key, varFrame, ret, outcome, log>>

\* Line 88 (the call) with lines 66-68: _encrypt_bytes(0x787, bs) is entered.
GenCallEncrypt(c) ==
    /\ pc[c] = "g88"
    /\ key' = [key EXCEPT ![KeyCell(c)] = InitialKey]
    /\ e_bs' = [e_bs EXCEPT ![c] = bs[c]]
    /\ e_result' = [e_result EXCEPT ![c] = <<>>]
    /\ e_i' = [e_i EXCEPT ![c] = 0]
    /\ pc' = [pc EXCEPT ![c] = "e69"]
    /\ UNCHANGED <<appVars, entry, calls, genFrame, varFrame, ret, outcome, log>>

\* ---------------------------------------------------------- _encrypt_bytes
\* Lines 69-72: one pass of the for loop over bs.
EncryptStep(c) ==
    /\ pc[c] = "e69"
    /\ e_i[c] < Len(e_bs[c])
    /\ LET b == e_bs[c][e_i[c] + 1]
           encrypted == EncryptedByte(key[KeyCell(c)], b)
       IN  /\ e_result' = [e_result EXCEPT ![c] = Append(@, encrypted)]
           /\ key' = [key EXCEPT ![KeyCell(c)] = NextKey(@, encrypted)]
    /\ e_i' = [e_i EXCEPT ![c] = @ + 1]
    /\ UNCHANGED <<appVars, pc, entry, calls, genFrame, e_bs, varFrame, ret, outcome, log>>

\* Mutant: the loop stops one byte early.
EncryptLoopEndEarly(c) ==
    /\ pc[c] = "e69"
    /\ e_i[c] + 1 >= Len(e_bs[c])
    /\ pc' = [pc EXCEPT ![c] = "e73"]
    /\ UNCHANGED <<appVars, entry, calls, genFrame, encFrame, varFrame, ret, outcome, log>>

\* Line 69, bs exhausted: the loop ends.
EncryptLoopEnd(c) ==
    /\ pc[c] = "e69"
    /\ e_i[c] = Len(e_bs[c])
    /\ pc' = [pc EXCEPT ![c] = "e73"]
    /\ UNCHANGED <<appVars, entry, calls, genFrame, encFrame, varFrame, ret, outcome, log>>

\* Line 73 back in generate (line 88): encrypted_bs is bound; the frame of
\* _encrypt_bytes is dropped (the register's cell keeps a dead value).
EncryptReturnToGenerate(c) ==
    /\ pc[c] = "e73"
    /\ entry[c] = "generate"
    /\ encrypted_bs' = [encrypted_bs EXCEPT ![c] = e_result[c]]
    /\ e_bs' = [e_bs EXCEPT ![c] = Unbound]
    /\ e_result' = [e_result EXCEPT ![c] = Unbound]
    /\ e_i' = [e_i EXCEPT ![c] = 0]
    /\ pc' = [pc EXCEPT ![c] = "g89"]
    /\ UNCHANGED <<appVars, entry, calls, args, license_type_code, license_str, bs, encoded,
                   key, varFrame, ret, outcome, log>>

\* Line 89 (the call) with lines 32-38: bytes(encrypted_bs) is handed to
\* _variant_base64_encode. bytes() needs every element in 0..255.
GenCallVariantEncode(c) ==
    /\ pc[c] = "g89"
    /\ IsByteList(encrypted_bs[c])
    /\ v_bs' = [v_bs EXCEPT ![c] = encrypted_bs[c]]
    /\ v_result' = [v_result EXCEPT ![c] = <<>>]
    /\ v_i' = [v_i EXCEPT ![c] = 0]
    /\ pc' = [pc EXCEPT ![c] = "b40"]
    /\ UNCHANGED <<appVars, entry, calls, genFrame, encFrame, ret, outcome, log>>

\* --------------------------------------------------- _variant_base64_encode
\* Lines 40-48: one pass of the loop over the full blocks.
EncodeBlock(c) ==
    /\ pc[c] = "b40"
    /\ v_i[c] < BlocksCount(v_bs[c])
    /\ v_result' = [v_result EXCEPT ![c] = @ \o Block4(CodingInt3(v_bs[c], v_i[c]))]
    /\ v_i' = [v_i EXCEPT ![c] = @ + 1]
    /\ UNCHANGED <<appVars, pc, entry, calls, genFrame, encFrame, v_bs, ret, outcome, log>>

\* Line 40, range exhausted.
EncodeLoopEnd(c) ==
    /\ pc[c] = "b40"
    /\ v_i[c] = BlocksCount(v_bs[c])
    /\ pc' = [pc EXCEPT ![c] = "b50"]
    /\ UNCHANGED <<appVars, entry, calls, genFrame, encFrame, varFrame, ret, outcome, log>>

\* Lines 50-61: the tail.
EncodeTail(c) ==
    /\ pc[c] = "b50"
    /\ v_result' = [v_result EXCEPT ![c] = @ \o TailBlock(v_bs[c])]
    /\ pc' = [pc EXCEPT ![c] = "b63"]
    /\ UNCHANGED <<appVars, entry, calls, genFrame, encFrame, v_bs, v_i, ret, outcome, log>>

\* Line 63 back in generate (line 89): encoded is bound, the frame dropped.
EncodeReturnToGenerate(c) ==
    /\ pc[c] = "b63"
    /\ entry[c] = "generate"
    /\ IsByteList(v_result[c])
    /\ encoded' = [encoded EXCEPT ![c] = v_result[c]]
    /\ v_bs' = [v_bs EXCEPT ![c] = Unbound]
    /\ v_result' = [v_result EXCEPT ![c] = Unbound]
    /\ v_i' = [v_i EXCEPT ![c] = 0]
    /\ pc' = [pc EXCEPT ![c] = "g91"]
    /\ UNCHANGED <<appVars, entry, calls, args, license_type_code, license_str, bs, encrypted_bs,
                   encFrame, ret, outcome, log>>

\* Line 91: return encoded.decode('ascii'); generate's frame is dropped.
GenReturn(c) ==
    /\ pc[c] = "g91"
    /\ IsAscii(encoded[c])
    /\ ret' = [ret EXCEPT ![c] = AsciiDecode(encoded[c])]
    /\ outcome' = [outcome EXCEPT ![c] = "returned"]
    /\ log' = Append(log, [ev |-> "return", caller |-> c, args |-> args[c],
                           result |-> AsciiDecode(encoded[c])])
    /\ license_type_code' = [license_type_code EXCEPT ![c] = 0]
    /\ license_str' = [license_str EXCEPT ![c] = Unbound]
    /\ bs' = [bs EXCEPT ![c] = Unbound]
    /\ encrypted_bs' = [encrypted_bs EXCEPT ![c] = Unbound]
    /\ encoded' = [encoded EXCEPT ![c] = Unbound]
    /\ pc' = [pc EXCEPT ![c] = "idle"]
    /\ UNCHANGED <<appVars, entry, calls, args, encFrame, varFrame>>

\* The steps of a generate call once it is entered.
GenerateStep(c) ==
    \/ GenLookup(c)
    \/ GenLookupRaise(c)
    \/ GenFormat(c)
    \/ GenEncodeUtf8(c)
    \/ GenCallEncrypt(c)
    \/ EncryptStep(c)
    \/ EncryptLoopEnd(c)
    \/ EncryptReturnToGenerate(c)
    \/ GenCallVariantEncode(c)
    \/ EncodeBlock(c)
    \/ EncodeLoopEnd(c)
    \/ EncodeTail(c)
    \/ EncodeReturnToGenerate(c)
    \/ GenReturn(c)

\* ------------------------------------------- the two helpers called directly
\* _encrypt_bytes(0x787, input) called on its own (lines 66-68).
CallEncryptBytes(c, input, limit) ==
    /\ pc[c] = "idle"
    /\ calls[c] < limit
    /\ entry' = [entry EXCEPT ![c] = "_encrypt_bytes"]
    /\ calls' = [calls EXCEPT ![c] = @ + 1]
    /\ key' = [key EXCEPT ![KeyCell(c)] = InitialKey]
    /\ e_bs' = [e_bs EXCEPT ![c] = input]
    /\ e_result' = [e_result EXCEPT ![c] = <<>>]
    /\ e_i' = [e_i EXCEPT ![c] = 0]
    /\ ret' = [ret EXCEPT ![c] = Unbound]
    /\ outcome' = [outcome EXCEPT ![c] = "none"]
    /\ pc' = [pc EXCEPT ![c] = "e69"]
    /\ UNCHANGED <<appVars, genFrame, varFrame, log>>

\* Line 73, called directly: the list goes to the caller.
EncryptReturn(c) ==
    /\ pc[c] = "e73"
    /\ entry[c] = "_encrypt_bytes"
    /\ ret' = [ret EXCEPT ![c] = e_result[c]]
    /\ outcome' = [outcome EXCEPT ![c] = "returned"]
    /\ e_bs' = [e_bs EXCEPT ![c] = Unbound]
    /\ e_result' = [e_result EXCEPT ![c] = Unbound]
    /\ e_i' = [e_i EXCEPT ![c] = 0]
    /\ pc' = [pc EXCEPT ![c] = "idle"]
    /\ UNCHANGED <<appVars, entry, calls, genFrame, key, varFrame, log>>

\* _variant_base64_encode(input) called on its own (lines 32-38).
CallVariantBase64Encode(c, input, limit) ==
    /\ pc[c] = "idle"
    /\ calls[c] < limit
    /\ entry' = [entry EXCEPT ![c] = "_variant_base64_encode"]
    /\ calls' = [calls EXCEPT ![c] = @ + 1]
    /\ v_bs' = [v_bs EXCEPT ![c] = input]
    /\ v_result' = [v_result EXCEPT ![c] = <<>>]
    /\ v_i' = [v_i EXCEPT ![c] = 0]
    /\ ret' = [ret EXCEPT ![c] = Unbound]
    /\ outcome' = [outcome EXCEPT ![c] = "none"]
    /\ pc' = [pc EXCEPT ![c] = "b40"]
    /\ UNCHANGED <<appVars, genFrame, encFrame, log>>

\* Line 63, called directly: bytes(result) goes to the caller.
EncodeReturn(c) ==
    /\ pc[c] = "b63"
    /\ entry[c] = "_variant_base64_encode"
    /\ IsByteList(v_result[c])
    /\ ret' = [ret EXCEPT ![c] = v_result[c]]
    /\ outcome' = [outcome EXCEPT ![c] = "returned"]
    /\ v_bs' = [v_bs EXCEPT ![c] = Unbound]
    /\ v_result' = [v_result EXCEPT ![c] = Unbound]
    /\ v_i' = [v_i EXCEPT ![c] = 0]
    /\ pc' = [pc EXCEPT ![c] = "idle"]
    /\ UNCHANGED <<appVars, entry, calls, genFrame, encFrame, log>>

\* ------------------------------------------------------------------ inputs
Arg(t, u, n, ma, mi) ==
    [license_type |-> t, username |-> u, user_count |-> n,
     major_version |-> ma, minor_version |-> mi]

\* "BroVnature"
BroVnature == <<66, 114, 111, 86, 110, 97, 116, 117, 114, 101>>

\* The call of the end-to-end scenario.
ScenarioArgs == Arg("Professional", BroVnature, 99, 25, 4)

\* Kinds: the three of LICENSE_TYPES and two that are not keys of it.
KindInputs == {"Professional", "Educational", "Personal", "Trial", "professional"}

\* Usernames: "", "a", "e-acute" (2 UTF-8 bytes), "#|" (the separators), the
\* euro sign (3 UTF-8 bytes).
UsernameInputs == {<<>>, <<97>>, <<233>>, <<35, 124>>, <<8364>>}

\* Every combination of the inputs above, and the scenario.
FormatPool ==
    {Arg(t, u, n, ma, mi) : t \in KindInputs, u \in UsernameInputs,
                            n \in {1, 99, 1000}, ma \in {0, 7, 25}, mi \in {0, 4, 12}}
    \cup {ScenarioArgs}

\* Arguments of the repeated sequential calls.
SeqPool ==
    {Arg("Professional", <<97>>, 1, 1, 0), Arg("Professional", <<97>>, 2, 1, 0),
     Arg("Educational", <<97>>, 1, 1, 0), Arg("Personal", <<233>>, 10, 0, 7),
     Arg("Professional", <<98>>, 1, 1, 0), Arg("Trial", <<97>>, 1, 1, 0)}

\* Arguments of the concurrent calls.
ConcPool ==
    {Arg("Professional", <<97>>, 1, 1, 0), Arg("Educational", <<233>>, 2, 0, 7),
     Arg("Personal", <<>>, 10, 3, 1), Arg("Trial", <<97>>, 1, 1, 0)}

SeqsUpTo(S, n) == UNION {[1..m -> S] : m \in 0..n}

ThinBytes == {0, 90, 255}
RichBytes == {0, 1, 63, 64, 72, 128, 195, 255}

\* Byte sequences handed to the helpers called directly; "ABC" is the
\* sequence of the reference trace.
CodecInputs ==
    SeqsUpTo(ThinBytes, MaxLen) \cup SeqsUpTo(RichBytes, MaxRichLen) \cup {<<65, 66, 67>>}

\* ---------------------------------------------------------- specifications
\* One caller calls generate again and again, one call after the other.
CallSeq == pc[1] = "idle" /\ \E a \in SeqPool : CallGenerate(1, a, MaxCalls)
Next == CallSeq \/ GenerateStep(1)
Spec == Init /\ [][Next]_vars

\* One caller, one call of generate, over every combination of the inputs.
CallFormat == pc[1] = "idle" /\ \E a \in FormatPool : CallGenerate(1, a, 1)
NextFormat == CallFormat \/ GenerateStep(1)
SpecFormat == Init /\ [][NextFormat]_vars

\* Two callers, one call of generate each, their steps interleaved freely.
CallConc == \E c \in Callers : pc[c] = "idle" /\ \E a \in ConcPool : CallGenerate(c, a, 1)
NextConc == CallConc \/ \E c \in Callers : GenerateStep(c)
SpecConc == Init /\ [][NextConc]_vars

\* The cipher and the encoder, each called directly on a byte sequence, or
\* through one call of generate.
CallCodec ==
    /\ pc[1] = "idle"
    /\ calls[1] = 0
    /\ \E input \in CodecInputs :
           \/ CallEncryptBytes(1, input, 1)
           \/ CallVariantBase64Encode(1, input, 1)
CallCodecGenerate == pc[1] = "idle" /\ \E a \in ConcPool : CallGenerate(1, a, 1)
NextCodec ==
    \/ CallCodec
    \/ CallCodecGenerate
    \/ GenerateStep(1)
    \/ EncryptReturn(1)
    \/ EncodeReturn(1)
SpecCodec == Init /\ [][NextCodec]_vars

\* ------------------------------------------------- the functions as wholes
\* _encrypt_bytes(k, b): lines 66-73 run to the end.
RECURSIVE EncryptBytes(_, _)
EncryptBytes(k, b) ==
    IF b = <<>> THEN <<>>
    ELSE LET encrypted == EncryptedByte(k, Head(b))
         IN  <<encrypted>> \o EncryptBytes(NextKey(k, encrypted), Tail(b))

\* _variant_base64_encode(b): lines 32-63 run to the end.
RECURSIVE EncodeBlocks(_, _)
EncodeBlocks(b, i) ==
    IF i >= BlocksCount(b) THEN <<>>
    ELSE Block4(CodingInt3(b, i)) \o EncodeBlocks(b, i + 1)

VariantBase64Encode(b) == EncodeBlocks(b, 0) \o TailBlock(b)

\* generate(a) run to the end on its own, for a license type that is a key.
Generate(a) ==
    AsciiDecode(VariantBase64Encode(EncryptBytes(InitialKey,
        Utf8Encode(FormatLicenseStr(LookupLicenseType(a.license_type).value, a.username,
                                    a.user_count, a.major_version, a.minor_version)))))

\* ------------------------------------------------ the application's inputs
\* What the user types into username_field: " ", " a ", and an unpaired
\* surrogate (U+D800), which str.encode('utf-8') refuses.
UsernameEdits == {<<32>>, <<32, 97, 32>>, <<55296>>}

\* Lines 255-259: the options of license_type_dropdown.
LicenseTypeOptions == {"Professional", "Educational", "Personal"}

\* What the user types into version_field:
\* "", "7", "-1.5", "1.-2", "1.2.3", "1.x".
VersionEdits ==
    {<<>>, <<55>>, <<45, 49, 46, 53>>, <<49, 46, 45, 50>>, <<49, 46, 50, 46, 51>>,
     <<49, 46, 120>>}

\* What the user types into user_count_field: "0", "1000", "1001", "x".
UserCountEdits == {<<48>>, <<49, 48, 48, 48>>, <<49, 48, 48, 49>>, <<120>>}

\* What one attempt to write the file can meet: it is written, open() raises
\* (the file is left as it was), or write() raises (open() has truncated it).
SaveOutcomes == {"ok", "open_fails", "write_fails"}

\* ----------------------------------------------- Python's text operations
\* The characters str.strip() and int() remove at both ends.
WhiteSpace ==
    (9..13) \cup (28..32) \cup {133, 160, 5760} \cup (8192..8202)
    \cup {8232, 8233, 8239, 8287, 12288}

RECURSIVE LStrip(_)
LStrip(s) == IF s # <<>> /\ Head(s) \in WhiteSpace THEN LStrip(Tail(s)) ELSE s

RECURSIVE RStrip(_)
RStrip(s) ==
    IF s # <<>> /\ s[Len(s)] \in WhiteSpace THEN RStrip(SubSeq(s, 1, Len(s) - 1)) ELSE s

\* s.strip()
Strip(s) == RStrip(LStrip(s))

\* cp in s, for one character cp.
Has(s, cp) == \E i \in 1..Len(s) : s[i] = cp

\* s.split(sep), for one character sep.
RECURSIVE Split(_, _)
Split(s, sep) ==
    IF ~Has(s, sep) THEN <<s>>
    ELSE LET i == CHOOSE j \in 1..Len(s) : s[j] = sep /\ \A k \in 1..(j - 1) : s[k] # sep
         IN  <<SubSeq(s, 1, i - 1)>> \o Split(SubSeq(s, i + 1, Len(s)), sep)

IsDigit(cp) == cp \in 48..57

RECURSIVE DecimalValue(_)
DecimalValue(d) ==
    IF d = <<>> THEN 0 ELSE 10 * DecimalValue(SubSeq(d, 1, Len(d) - 1)) + (d[Len(d)] - 48)

\* int(s): white space at the ends is dropped, one sign is allowed, then
\* digits, with single underscores allowed between digits; anything else
\* raises ValueError.  (Digits are the ASCII ones in the input sets.)
IntParse(s) ==
    LET t == Strip(s)
        signed == t # <<>> /\ Head(t) \in {43, 45}
        body == IF signed THEN Tail(t) ELSE t
        wellFormed ==
            /\ body # <<>>
            /\ IsDigit(body[1])
            /\ IsDigit(body[Len(body)])
            /\ \A i \in 1..Len(body) : IsDigit(body[i]) \/ body[i] = 95
            /\ \A i \in 1..(Len(body) - 1) : ~(body[i] = 95 /\ body[i + 1] = 95)
        n == DecimalValue(SelectSeq(body, IsDigit))
    IN  IF wellFormed
        THEN [raised |-> FALSE, value |-> IF signed /\ Head(t) = 45 THEN 0 - n ELSE n]
        ELSE [raised |-> TRUE, value |-> 0]

\* ------------------------------------------------------- validate_fields
\* Lines 487-492
UsernameErrors == IF Strip(username_field) = <<>> THEN <<"username_empty">> ELSE <<>>

\* Lines 495-500
LicenseTypeErrors == IF license_type_dropdown = "" THEN <<"license_type_empty">> ELSE <<>>

\* Lines 503-528: int() is all that is asked of the parts of the version.
VersionErrors ==
    LET version_text == Strip(version_field)
        parts == Split(version_text, 46)
    IN  IF version_text = <<>> THEN <<"version_empty">>
        ELSE IF Has(version_text, 46) THEN
            IF Len(parts) # 2 THEN <<"version_format">>
            ELSE IF IntParse(parts[1]).raised \/ IntParse(parts[2]).raised
                 THEN <<"version_digits">>
                 ELSE <<>>
        ELSE IF IntParse(version_text).raised THEN <<"version_number">>
        ELSE <<>>

\* Lines 531-548
UserCountErrors ==
    LET count_text == Strip(user_count_field)
        count == IntParse(count_text)
    IN  IF count_text = <<>> THEN <<"count_empty">>
        ELSE IF count.raised THEN <<"count_number">>
        ELSE IF count.value < 1 THEN <<"count_low">>
        ELSE IF count.value > 1000 THEN <<"count_high">>
        ELSE <<>>

\* Lines 482-550: the errors, in the order they are appended.  A field's
\* border is the error colour exactly when one of its errors is in the list.
validate_fields == UsernameErrors \o LicenseTypeErrors \o VersionErrors \o UserCountErrors

\* ----------------------------------------------------------- generate_key
\* Lines 576-590: the arguments generate_key reads from the fields; raised
\* when the unpacking of line 582 or one of the int() calls raises.
ParsedFields ==
    LET version_text == Strip(version_field)
        dotted == Has(version_text, 46)
        parts == Split(version_text, 46)
        major == IF dotted THEN IntParse(Strip(parts[1])) ELSE IntParse(version_text)
        minor == IF dotted THEN IntParse(Strip(parts[2]))
                 ELSE [raised |-> FALSE, value |-> 0]
        count == IntParse(Strip(user_count_field))
    IN  [raised |-> (dotted /\ Len(parts) # 2) \/ major.raised \/ minor.raised
                    \/ count.raised,
         args |-> Arg(license_type_dropdown, Strip(username_field), count.value,
                      major.value, minor.value)]

\* generate(a) raises: KeyError at line 84, or UnicodeEncodeError at line 87
\* when the record holds a surrogate.
GenerateRaises(a) ==
    \/ LookupLicenseType(a.license_type).raised
    \/ \E i \in 1..Len(a.username) : a.username[i] \in 55296..57343

GenerateCall(a) == [fn |-> "generate", args |-> a, key |-> <<>>]

\* ------------------------------------------------------------ save_to_file
\* Lines 97-99: an archive with the one entry "Pro.key".
Archive(k) == [state |-> "archive", entries |-> <<[name |-> "Pro.key", data |-> k]>>]

\* open(filename, "wb") has emptied the file and write() did not finish.
Truncated == [state |-> "truncated", entries |-> <<>>]

\* What one attempt leaves on the disk.
DiskAfter(k, before, o) ==
    IF o = "ok" THEN Archive(k) ELSE IF o = "write_fails" THEN Truncated ELSE before

\* Mutant: a failed attempt is followed by a second one, which meets the same.
save_to_file_retry(k, filename, env) ==
    LET o == env.outcome
    IN  [attempts |-> IF o = "ok" THEN 1 ELSE 2, raised |-> FALSE, success |-> o = "ok",
         message |-> IF o = "ok" THEN filename
                     ELSE IF o = "open_fails" THEN "Error: open" ELSE "Error: write",
         disk |-> DiskAfter(k, DiskAfter(k, env.before, o), o)]

\* Lines 93-106: save_to_file(key, filename), where env.before is the file
\* before the call and env.outcome is what the attempt meets.  Every
\* Exception is caught at line 105, so the call returns; the message stands
\* for the text of line 106.
save_to_file(k, filename, env) ==
    LET o == env.outcome
    IN  [attempts |-> 1, raised |-> FALSE, success |-> o = "ok",
         message |-> IF o = "ok" THEN filename
                     ELSE IF o = "open_fails" THEN "Error: open" ELSE "Error: write",
         disk |-> DiskAfter(k, env.before, o)]

\* ------------------------------------------------------------ the handlers
\* The user types into username_field (lines 247-252).
EditUsername(v) ==
    /\ app_pc = "idle"
    /\ edits < MaxEdits
    /\ v # username_field
    /\ username_field' = v
    /\ edits' = edits + 1
    /\ UNCHANGED <<coreVars, app_pc, license_type_dropdown, version_field,
                   user_count_field, generated_key, key_display, generate_btn_disabled,
                   file_info_text, status, snack, errors, disk, save_result,
                   last_call, last_ok>>

\* The user picks an option of license_type_dropdown (lines 253-262).
SelectLicenseType(v) ==
    /\ app_pc = "idle"
    /\ edits < MaxEdits
    /\ v # license_type_dropdown
    /\ license_type_dropdown' = v
    /\ edits' = edits + 1
    /\ UNCHANGED <<coreVars, app_pc, username_field, version_field, user_count_field,
                   generated_key, key_display, generate_btn_disabled, file_info_text,
                   status, snack, errors, disk, save_result, last_call,
                   last_ok>>

\* The user types into version_field (lines 274-279).
EditVersion(v) ==
    /\ app_pc = "idle"
    /\ edits < MaxEdits
    /\ v # version_field
    /\ version_field' = v
    /\ edits' = edits + 1
    /\ UNCHANGED <<coreVars, app_pc, username_field, license_type_dropdown,
                   user_count_field, generated_key, key_display, generate_btn_disabled,
                   file_info_text, status, snack, errors, disk, save_result,
                   last_call, last_ok>>

\* The user types into user_count_field (lines 281-286).
EditUserCount(v) ==
    /\ app_pc = "idle"
    /\ edits < MaxEdits
    /\ v # user_count_field
    /\ user_count_field' = v
    /\ edits' = edits + 1
    /\ UNCHANGED <<coreVars, app_pc, username_field, license_type_dropdown,
                   version_field, generated_key, key_display, generate_btn_disabled,
                   file_info_text, status, snack, errors, disk, save_result,
                   last_call, last_ok>>

\* Lines 552-562: validate_and_generate, validate_fields found errors.
ValidateAndGenerateReject ==
    /\ app_pc = "idle"
    /\ validate_fields # <<>>
    /\ errors' = validate_fields
    /\ snack' = "validation_errors"
    /\ status' = "fix_errors"
    /\ last_call' = NoCall
    /\ save_result' = NoResult
    /\ UNCHANGED <<coreVars, app_pc, username_field, license_type_dropdown,
                   version_field, user_count_field, generated_key, key_display,
                   generate_btn_disabled, file_info_text, disk, last_ok, edits>>

\* Lines 552-557 and 565, then 569-573: no errors, generate_key is entered,
\* the button is disabled and the page is updated.
ValidateAndGenerateAccept ==
    /\ app_pc = "idle"
    /\ validate_fields = <<>>
    /\ generate_btn_disabled' = TRUE
    /\ status' = "generating"
    /\ app_pc' = "gk575"
    /\ last_call' = NoCall
    /\ save_result' = NoResult
    /\ UNCHANGED <<coreVars, username_field, license_type_dropdown, version_field,
                   user_count_field, generated_key, key_display, file_info_text, snack,
                   errors, disk, last_ok, edits>>

\* Lines 575-616 and 623: generate returned.
GenerateKeyReturn ==
    /\ app_pc = "gk575"
    /\ ~ParsedFields.raised
    /\ ~GenerateRaises(ParsedFields.args)
    /\ last_ok' = StrValue(Generate(ParsedFields.args))
    /\ generated_key' = last_ok'
    /\ key_display' = last_ok'.str
    /\ last_call' = GenerateCall(ParsedFields.args)
    /\ file_info_text' = "key_generated"
    /\ status' = "key_ready"
    /\ generate_btn_disabled' = FALSE
    /\ snack' = "key_generated"
    /\ errors' = <<>>
    /\ app_pc' = "idle"
    /\ UNCHANGED <<coreVars, username_field, license_type_dropdown, version_field,
                   user_count_field, disk, save_result, edits>>

\* Lines 575-599 raised, then lines 618-623.
GenerateKeyExcept ==
    /\ app_pc = "gk575"
    /\ ParsedFields.raised \/ GenerateRaises(ParsedFields.args)
    /\ last_call' = IF ParsedFields.raised THEN NoCall ELSE GenerateCall(ParsedFields.args)
    /\ snack' = "generation_error"
    /\ status' = "generation_error"
    /\ errors' = <<>>
    /\ generate_btn_disabled' = FALSE
    /\ app_pc' = "idle"
    /\ UNCHANGED <<coreVars, username_field, license_type_dropdown, version_field,
                   user_count_field, generated_key, key_display, file_info_text, disk,
                   save_result, last_ok, edits>>

\* Lines 627-630: copy_key with no key.
CopyKeyRefuse ==
    /\ app_pc = "idle"
    /\ Falsy(generated_key)
    /\ snack' = "generate_first"
    /\ status' = "generate_first"
    /\ errors' = <<>>
    /\ last_call' = NoCall
    /\ save_result' = NoResult
    /\ UNCHANGED <<coreVars, app_pc, username_field, license_type_dropdown,
                   version_field, user_count_field, generated_key, key_display,
                   generate_btn_disabled, file_info_text, disk, last_ok, edits>>

\* Mutant: copy_key without the test of line 627.
CopyKeyUnguarded ==
    /\ app_pc = "idle"
    /\ last_call' = [fn |-> "set_clipboard", args |-> NoArgs, key |-> generated_key.str]
    /\ status' = "copied"
    /\ snack' = "copied"
    /\ errors' = <<>>
    /\ save_result' = NoResult
    /\ UNCHANGED <<coreVars, app_pc, username_field, license_type_dropdown,
                   version_field, user_count_field, generated_key, key_display,
                   generate_btn_disabled, file_info_text, disk, last_ok, edits>>

\* Lines 627 and 632-635: copy_key with a key; page.set_clipboard receives it.
CopyKey ==
    /\ app_pc = "idle"
    /\ ~Falsy(generated_key)
    /\ last_call' = [fn |-> "set_clipboard", args |-> NoArgs, key |-> generated_key.str]
    /\ status' = "copied"
    /\ snack' = "copied"
    /\ errors' = <<>>
    /\ save_result' = NoResult
    /\ UNCHANGED <<coreVars, app_pc, username_field, license_type_dropdown,
                   version_field, user_count_field, generated_key, key_display,
                   generate_btn_disabled, file_info_text, disk, last_ok, edits>>

\* Lines 639-642: save_license with no key.
SaveLicenseRefuse ==
    /\ app_pc = "idle"
    /\ Falsy(generated_key)
    /\ snack' = "generate_first"
    /\ status' = "generate_first"
    /\ errors' = <<>>
    /\ last_call' = NoCall
    /\ save_result' = NoResult
    /\ UNCHANGED <<coreVars, app_pc, username_field, license_type_dropdown,
                   version_field, user_count_field, generated_key, key_display,
                   generate_btn_disabled, file_info_text, disk, last_ok, edits>>

\* Lines 639 and 644-663: save_license with a key.  met is what the
\* attempt to write meets; getsize_ok is whether the file is still there at
\* line 648.
SaveLicense(met, getsize_ok) ==
    /\ app_pc = "idle"
    /\ ~Falsy(generated_key)
    /\ LET r == save_to_file(generated_key.str, license_file,
                             [before |-> disk, outcome |-> met])
       IN  /\ save_result' = r
           /\ last_call' = [fn |-> "save_to_file", args |-> NoArgs, key |-> generated_key.str]
           /\ IF r.raised THEN
                  /\ disk' = r.disk
                  /\ snack' = "save_exception"
                  /\ status' = "save_exception"
                  /\ UNCHANGED file_info_text
              ELSE IF r.success /\ getsize_ok THEN
                  /\ disk' = r.disk
                  /\ file_info_text' = "file_saved"
                  /\ status' = "file_saved"
                  /\ snack' = "file_saved"
              ELSE IF r.success THEN
                  /\ disk' = NoFile
                  /\ snack' = "save_exception"
                  /\ status' = "save_exception"
                  /\ UNCHANGED file_info_text
              ELSE
                  /\ disk' = r.disk
                  /\ snack' = "save_error"
                  /\ status' = "save_error"
                  /\ UNCHANGED file_info_text
    /\ errors' = <<>>
    /\ UNCHANGED <<coreVars, app_pc, username_field, license_type_dropdown,
                   version_field, user_count_field, generated_key, key_display,
                   generate_btn_disabled, last_ok, edits>>

\* The application: the user edits fields and presses buttons; a handler
\* runs to its end before the next event is handled.
NextApp ==
    \/ \E v \in UsernameEdits : EditUsername(v)
    \/ \E v \in LicenseTypeOptions : SelectLicenseType(v)
    \/ \E v \in VersionEdits : EditVersion(v)
    \/ \E v \in UserCountEdits : EditUserCount(v)
    \/ ValidateAndGenerateReject
    \/ ValidateAndGenerateAccept
    \/ GenerateKeyReturn
    \/ GenerateKeyExcept
    \/ CopyKeyRefuse
    \/ CopyKey
    \/ SaveLicenseRefuse
    \/ \E met \in SaveOutcomes, getsize_ok \in BOOLEAN :
           SaveLicense(met, getsize_ok)
SpecApp == Init /\ [][NextApp]_vars

\* -------------------------------------------------------------- properties
\* Lines at which a generate call has built its record.
RecordBuilt == {"g87", "g88", "e69", "e73", "g89", "b40", "b50", "b63", "g91"}

\* "1#BroVnature|254#99#25346#0#0#0#", the record the specification prints.
PrintedScenarioRecord ==
    <<49, 35, 66, 114, 111, 86, 110, 97, 116, 117, 114, 101, 124, 50, 53, 52, 35,
      57, 57, 35, 50, 53, 51, 52, 54, 35, 48, 35, 48, 35, 48, 35>>

\* "1#BroVnature|254#99#253464#0#0#0#": major 3 minor 6 minor is 25 3 4 6 4.
ScenarioRecord ==
    <<49, 35, 66, 114, 111, 86, 110, 97, 116, 117, 114, 101, 124, 50, 53, 52, 35,
      57, 57, 35, 50, 53, 51, 52, 54, 52, 35, 48, 35, 48, 35, 48, 35>>

\* "2smC6ciHmkCP9oTL0oXf8tWcxtme9tHf+x3a4tGerh3a", the key the program returns
\* for the scenario.
ScenarioKey ==
    <<50, 115, 109, 67, 54, 99, 105, 72, 109, 107, 67, 80, 57, 111, 84, 76, 48, 111,
      88, 102, 56, 116, 87, 99, 120, 116, 109, 101, 57, 116, 72, 102, 43, 120, 51, 97,
      52, 116, 71, 101, 114, 104, 51, 97>>

\* The scenario call builds `record`; these characters, as bytes, are what the
\* cipher receives, with its key register at 0x787 before the first byte, and
\* the cipher's output is what the encoder receives.
ScenarioBuilds(record) ==
    \A c \in Callers :
        (entry[c] = "generate" /\ args[c] = ScenarioArgs) =>
            /\ pc[c] \in RecordBuilt => license_str[c] = record
            /\ pc[c] \in {"e69", "e73"} =>
                   /\ e_bs[c] = record
                   /\ e_i[c] = 0 => key[c] = 1927
            /\ pc[c] = "g89" => Len(encrypted_bs[c]) = Len(record)
            /\ pc[c] \in {"b40", "b50", "b63"} =>
                   /\ v_bs[c] = encrypted_bs[c]
                   /\ Len(v_bs[c]) = Len(record)

\* C1 as stated: generate("Professional", "BroVnature", 99, 25, 4) builds
\* exactly the record 1#BroVnature|254#99#25346#0#0#0# and feeds it to the
\* cipher started at key 0x787 and then to the encoder.
C1_PrintedRecord == ScenarioBuilds(PrintedScenarioRecord)

\* C1 amended: generate("Professional", "BroVnature", 99, 25, 4) builds exactly
\* the record 1#BroVnature|254#99#253464#0#0#0# (the version field is major 3
\* minor 6 minor = 253464) and feeds it to the cipher started at key 0x787 and
\* then to the encoder.
C1_ScenarioRecord == ScenarioBuilds(ScenarioRecord)

\* The scenario call has returned, and returned the key the program returns.
C1_Witness ==
    /\ args[1] = ScenarioArgs
    /\ outcome[1] = "returned"
    /\ ret[1] = ScenarioKey

\* The value of a sequence of decimal digits.
RECURSIVE DigitsValue(_)
DigitsValue(s) ==
    IF s = <<>> THEN 0 ELSE 10 * DigitsValue(SubSeq(s, 1, Len(s) - 1)) + (s[Len(s)] - 48)

\* s is the decimal digit sequence of n: digits only, no leading zero.
IsDecimalOf(s, n) ==
    /\ Len(s) >= 1
    /\ \A i \in 1..Len(s) : s[i] \in 48..57
    /\ Len(s) > 1 => s[1] # 48
    /\ DigitsValue(s) = n

\* The digit the specification gives each kind: Professional 1, Educational 3, Personal 4.
KindDigit(t) ==
    IF t = "Professional" THEN 49 ELSE IF t = "Educational" THEN 51 ELSE 52

RecognizedKinds == {"Professional", "Educational", "Personal"}

\* C2: for every recognized kind, username, seat count, major and minor the
\* record is kindCode # username | major minor # seatCount # major 3 minor 6
\* minor #0#0#0#, the numbers as decimal digit sequences, the username verbatim.
C2_RecordFormat ==
    \A c \in Callers :
        (entry[c] = "generate" /\ pc[c] \in RecordBuilt) =>
            LET a == args[c]
                ma == Str(a.major_version)
                mi == Str(a.minor_version)
                n == Str(a.user_count)
            IN  /\ a.license_type \in RecognizedKinds
                /\ IsDecimalOf(ma, a.major_version)
                /\ IsDecimalOf(mi, a.minor_version)
                /\ IsDecimalOf(n, a.user_count)
                /\ license_str[c] =
                       <<KindDigit(a.license_type), 35>> \o a.username \o <<124>> \o
                       ma \o mi \o <<35>> \o n \o <<35>> \o
                       ma \o <<51>> \o mi \o <<54>> \o mi \o <<35, 48, 35, 48, 35, 48, 35>>

\* An Educational call with a two-digit minor and the separators as username
\* has built its record.
C2_Witness ==
    /\ pc[1] = "g87"
    /\ args[1] = Arg("Educational", <<35, 124>>, 1000, 7, 12)
    /\ Len(license_str[1]) = 28

\* C3: a call whose kind is none of Professional, Educational, Personal fails
\* at the lookup: it never gets past line 84, builds no record, runs no cipher
\* step, encodes no symbol and returns no key.
C3_KindRejection ==
    \A c \in Callers :
        (entry[c] = "generate" /\ args[c].license_type \notin RecognizedKinds) =>
            /\ pc[c] \in {"g84", "idle"}
            /\ pc[c] = "idle" => outcome[c] = "raised"
            /\ outcome[c] # "returned"
            /\ ret[c] = Unbound
            /\ license_str[c] = Unbound /\ bs[c] = Unbound
            /\ e_bs[c] = Unbound /\ e_result[c] = Unbound /\ e_i[c] = 0
            /\ encrypted_bs[c] = Unbound
            /\ v_bs[c] = Unbound /\ v_result[c] = Unbound /\ v_i[c] = 0
            /\ encoded[c] = Unbound
            /\ \A i \in 1..Len(log) : log[i].caller = c => log[i].ev # "return"

\* A call with the kind "Trial" has raised.
C3_Witness ==
    /\ args[1].license_type = "Trial"
    /\ pc[1] = "idle"
    /\ outcome[1] = "raised"
    /\ log[Len(log)].ev = "raise"

\* C4: two calls of generate with the same arguments return the same string,
\* whatever was called before or between them, and the key register is 0x787
\* whenever the cipher is about to take its first byte.
C4_Determinism ==
    /\ \A i, j \in 1..Len(log) :
           (log[i].ev = "return" /\ log[j].ev = "return" /\ log[i].args = log[j].args)
               => log[i].result = log[j].result
    /\ \A c \in Callers : (pc[c] = "e69" /\ e_i[c] = 0) => key[c] = 1927

\* Two calls with the same arguments have returned, a call with other
\* arguments between them.
C4_Witness ==
    /\ Len(log) = 6
    /\ log[2].ev = "return" /\ log[4].ev = "return" /\ log[6].ev = "return"
    /\ log[2].args = log[6].args
    /\ log[4].args # log[2].args

\* C7: with the steps of two generate calls interleaved in any order, each
\* call returns the string generate returns for its arguments when run alone,
\* and a call raises only for a kind that is no key of LICENSE_TYPES.
C7_ConcurrentCalls ==
    \A i \in 1..Len(log) :
        /\ log[i].ev = "return" =>
               /\ log[i].args.license_type \in RecognizedKinds
               /\ log[i].result = Generate(log[i].args)
        /\ log[i].ev = "raise" => log[i].args.license_type \notin RecognizedKinds

\* Both callers called before either returned, with different arguments, and
\* both have returned.
C7_Witness ==
    /\ Len(log) = 4
    /\ log[1].ev = "call" /\ log[2].ev = "call"
    /\ log[3].ev = "return" /\ log[4].ev = "return"
    /\ log[1].args # log[2].args

\* The symbol the specification gives index i: A-Z, a-z, 0-9, '+', '/'.
DataSymbol(i) ==
    IF i < 26 THEN 65 + i
    ELSE IF i < 52 THEN 97 + (i - 26)
    ELSE IF i < 62 THEN 48 + (i - 52)
    ELSE IF i = 62 THEN 43 ELSE 47

DataSymbols == {DataSymbol(i) : i \in 0..63}

\* The k-th six-bit digit of v, least significant first.
Sextet(v, k) == (v \div (64 ^ k)) % 64

\* The length the specification gives the encoding of n bytes.
LawLength(n) == 4 * (n \div 3) + (IF n % 3 = 0 THEN 0 ELSE IF n % 3 = 1 THEN 2 ELSE 3)

\* C5: for an input of n bytes _variant_base64_encode returns
\* 4*floor(n/3) + (0, 2 or 3 for n%3 = 0, 1 or 2) symbols, so the length is a
\* multiple of 4 only when n%3 = 0.
C5_LengthLaw ==
    \A c \in Callers :
        /\ pc[c] = "b63" =>
               /\ Len(v_result[c]) = LawLength(Len(v_bs[c]))
               /\ Len(v_result[c]) % 4 = 0 => Len(v_bs[c]) % 3 = 0
        /\ pc[c] \in {"b40", "b50"} => Len(v_result[c]) = 4 * v_i[c]

\* The encoder is about to return 10 symbols for 7 bytes.
C5_Witness ==
    /\ pc[1] = "b63"
    /\ entry[1] = "_variant_base64_encode"
    /\ Len(v_bs[1]) = 7
    /\ Len(v_result[1]) = 10

\* C6: every character the encoder emits, and so every character of a key
\* generate returns, is one of the 64 data symbols A-Z a-z 0-9 + /; '=' is
\* never emitted, in full groups and in tails alike.
C6_AlphabetClosure ==
    \A c \in Callers :
        /\ \A i \in 1..Len(v_result[c]) :
               v_result[c][i] \in DataSymbols /\ v_result[c][i] # 61
        /\ \A i \in 1..Len(encoded[c]) :
               encoded[c][i] \in DataSymbols /\ encoded[c][i] # 61
        /\ (entry[c] \in {"_variant_base64_encode", "generate"} /\ outcome[c] = "returned") =>
               \A i \in 1..Len(ret[c]) : ret[c][i] \in DataSymbols /\ ret[c][i] # 61

\* The encoder is about to return "////" and the tail "/P" for five bytes
\* 0xFF: the last data symbol in a full group and in a tail.
C6_Witness ==
    /\ pc[1] = "b63"
    /\ v_bs[1] = <<255, 255, 255, 255, 255>>
    /\ v_result[1] = <<47, 47, 47, 47, 47, 47, 80>>

\* Bit n of x.
Bit(x, n) == (x \div (2 ^ n)) % 2

\* C8: the cipher starts with key register 0x787, takes the bytes in order,
\* and for each byte b emits out = b XOR ((key >> 8) AND 0xFF) and then sets
\* key = (out AND key before the update) OR 0x482D.
C8_CipherRecurrence ==
    [][\A c \in Callers :
           /\ (pc[c] = "e69" /\ e_i[c] = 0) => key[c] = 1927
           /\ (pc[c] = "e69" /\ e_i'[c] = e_i[c] + 1) =>
                  LET b == e_bs[c][e_i[c] + 1]
                      out == e_result'[c][e_i[c] + 1]
                  IN  /\ e_result'[c] = Append(e_result[c], out)
                      /\ Len(e_result'[c]) = e_i[c] + 1
                      /\ out \in 0..255
                      /\ \A n \in 0..7 : Bit(out, n) = (Bit(b, n) + Bit(key[c], n + 8)) % 2
                      /\ key'[c] \in 0..65535
                      /\ \A n \in 0..15 :
                             Bit(key'[c], n) =
                                 IF Bit(18477, n) = 1 THEN 1 ELSE Bit(out, n) * Bit(key[c], n)]_vars

\* Three bytes 0x00 0xFF 0x3F have been taken: the emitted bytes are
\* 0x07 0xB7 0x77 and the key register holds 0x482F.
C8_Witness ==
    /\ pc[1] = "e69"
    /\ e_bs[1] = <<0, 255, 63>>
    /\ e_i[1] = 3
    /\ e_result[1] = <<7, 183, 119>>
    /\ key[1] = 18479

\* C9: a full group b0,b1,b2 yields the four six-bit digits of
\* v = b0 | b1<<8 | b2<<16, least significant first, each through the
\* alphabet; a 1-byte tail yields the first two digits of b0, a 2-byte tail
\* the first three of b0 | b1<<8, an empty tail nothing; no padding.
C9_GroupEncoding ==
    \A c \in Callers :
        pc[c] \in {"b40", "b50", "b63"} =>
            LET b == v_bs[c]
                r == v_result[c]
                q == Len(b) \div 3
            IN  /\ \A g \in 0..(v_i[c] - 1) :
                       LET v == b[3 * g + 1] + 256 * b[3 * g + 2] + 65536 * b[3 * g + 3]
                       IN  /\ Len(r) >= 4 * g + 4
                           /\ \A k \in 0..3 : r[4 * g + k + 1] = DataSymbol(Sextet(v, k))
                /\ pc[c] \in {"b40", "b50"} => Len(r) = 4 * v_i[c]
                /\ pc[c] \in {"b50", "b63"} => v_i[c] = q
                /\ (pc[c] = "b63" /\ Len(b) % 3 = 0) => Len(r) = 4 * q
                /\ (pc[c] = "b63" /\ Len(b) % 3 = 1) =>
                       /\ Len(r) = 4 * q + 2
                       /\ \A k \in 0..1 : r[4 * q + k + 1] = DataSymbol(Sextet(b[3 * q + 1], k))
                /\ (pc[c] = "b63" /\ Len(b) % 3 = 2) =>
                       /\ Len(r) = 4 * q + 3
                       /\ \A k \in 0..2 :
                              r[4 * q + k + 1] =
                                  DataSymbol(Sextet(b[3 * q + 1] + 256 * b[3 * q + 2], k))

\* The encoder is about to return "BAww" and the tail "AB" for 0x01 0x00 0xC3 0x40.
C9_Witness ==
    /\ pc[1] = "b63"
    /\ v_bs[1] = <<1, 0, 195, 64>>
    /\ v_result[1] = <<66, 65, 119, 119, 65, 66>>

\* C10: _encrypt_bytes raises nothing and returns as many bytes as it was
\* given, each in 0..255; on empty input it returns the empty list and leaves
\* the key register at its initial value.
C10_CipherTotal ==
    \A c \in Callers :
        /\ pc[c] = "e69" =>
               /\ Len(e_result[c]) = e_i[c]
               /\ e_i[c] <= Len(e_bs[c])
        /\ pc[c] = "e73" =>
               /\ Len(e_result[c]) = Len(e_bs[c])
               /\ e_bs[c] = <<>> => (e_result[c] = <<>> /\ key[c] = 1927)
        /\ pc[c] \in {"e69", "e73"} => IsByteList(e_result[c])
        /\ entry[c] = "_encrypt_bytes" =>
               /\ outcome[c] # "raised"
               /\ outcome[c] = "returned" => IsByteList(ret[c])

\* The cipher is about to return one byte per byte of a 7-byte input.
C10_Witness ==
    /\ pc[1] = "e73"
    /\ entry[1] = "_encrypt_bytes"
    /\ Len(e_bs[1]) = 7
    /\ Len(e_result[1]) = 7

\* a XOR b on bytes, bit by bit.
XorByte(a, b) ==
    (IF Bit(a, 0) # Bit(b, 0) THEN 1 ELSE 0) + (IF Bit(a, 1) # Bit(b, 1) THEN 2 ELSE 0) +
    (IF Bit(a, 2) # Bit(b, 2) THEN 4 ELSE 0) + (IF Bit(a, 3) # Bit(b, 3) THEN 8 ELSE 0) +
    (IF Bit(a, 4) # Bit(b, 4) THEN 16 ELSE 0) + (IF Bit(a, 5) # Bit(b, 5) THEN 32 ELSE 0) +
    (IF Bit(a, 6) # Bit(b, 6) THEN 64 ELSE 0) + (IF Bit(a, 7) # Bit(b, 7) THEN 128 ELSE 0)

\* C13: once the first byte is processed the key register lies in
\* 0x482D..0x48FF (high byte 0x48, at most 16 bits), so the first emitted
\* byte is in[0] XOR 0x07 and every later one in[i] XOR 0x48, whatever the
\* earlier plaintext bytes were.
C13_KeyHighByte ==
    \A c \in Callers :
        pc[c] \in {"e69", "e73"} =>
            /\ e_i[c] >= 1 =>
                   /\ key[c] \in 18477..18687
                   /\ key[c] \div 256 = 72
                   /\ key[c] < 65536
            /\ \A i \in 1..Len(e_result[c]) :
                   e_result[c][i] = XorByte(e_bs[c][i], IF i = 1 THEN 7 ELSE 72)

\* The cipher has taken 0xFF 0xFF 0xFF: it emitted 0xF8 0xB7 0xB7 and the key
\* register holds 0x48AD.
C13_Witness ==
    /\ pc[1] = "e73"
    /\ e_bs[1] = <<255, 255, 255>>
    /\ e_result[1] = <<248, 183, 183>>
    /\ key[1] = 18605

\* a AND b and a OR b on 16-bit values, bit by bit.
AndBits(a, b) ==
    LET f[n \in 0..16] == IF n = 16 THEN 0 ELSE Bit(a, n) * Bit(b, n) * (2 ^ n) + f[n + 1]
    IN  f[0]
OrBits(a, b) ==
    LET f[n \in 0..16] ==
            IF n = 16 THEN 0
            ELSE (IF Bit(a, n) + Bit(b, n) > 0 THEN 2 ^ n ELSE 0) + f[n + 1]
    IN  f[0]

\* The decryptor: b = c XOR ((key >> 8) AND 0xFF), then
\* key = (c AND key) OR 0x482D.
RECURSIVE DecryptBytes(_, _)
DecryptBytes(k, c) ==
    IF c = <<>> THEN <<>>
    ELSE <<XorByte(Head(c), (k \div 256) % 256)>> \o
         DecryptBytes(OrBits(AndBits(Head(c), k), 18477), Tail(c))

\* C14: the decryptor started at key 0x787 recovers the input from the
\* cipher's output, for every byte sequence; an input of the same length
\* with one byte complemented does not encrypt to the same output.
C14_Reversible ==
    \A c \in Callers :
        pc[c] = "e73" =>
            /\ DecryptBytes(1927, e_result[c]) = e_bs[c]
            /\ \A i \in 1..Len(e_bs[c]) :
                   EncryptBytes(InitialKey, [e_bs[c] EXCEPT ![i] = 255 - @]) # e_result[c]

\* The cipher has taken "ABC" (0x41 0x42 0x43) and emitted 0x46 0x0A 0x0B.
C14_Witness ==
    /\ pc[1] = "e73"
    /\ e_bs[1] = <<65, 66, 67>>
    /\ e_result[1] = <<70, 10, 11>>

\* C11: every call the application makes to generate passes a non-empty
\* username, a seat count in 1..1000, and a major and a minor version that
\* are not negative.
C11_ValidatedArguments ==
    last_call.fn = "generate" =>
        /\ Len(last_call.args.username) > 0
        /\ last_call.args.user_count \in 1..1000
        /\ last_call.args.major_version >= 0
        /\ last_call.args.minor_version >= 0

C15_KeyOfLastSuccess ==
    /\ [](/\ last_call.fn \in {"set_clipboard", "save_to_file"} =>
                  /\ ~last_ok.none
                  /\ last_call.key = last_ok.str
          /\ generated_key = last_ok
          /\ app_pc = "idle" => ~generate_btn_disabled)
    /\ [][/\ generated_key' # generated_key =>
                  /\ app_pc = "gk575"
                  /\ status' = "key_ready"
                  /\ last_call'.fn = "generate"
          /\ status' \in {"fix_errors", "generation_error"} =>
                  generated_key' = generated_key
          /\ (app_pc = "gk575" /\ app_pc' = "idle") => ~generate_btn_disabled']_vars

\* The key of the scenario was generated, then the username was changed to
\* one generate refuses, and copy_key still passes the scenario's key.
C15_Witness ==
    /\ last_call.fn = "set_clipboard"
    /\ username_field = <<55296>>
    /\ edits = 1
    /\ last_call.key = ScenarioKey
    /\ generated_key = StrValue(ScenarioKey)

====
